---- MODULE Spec2Model ----
(***************************************************************************)
(* Dynamic linking between contracts in wasmvm.                            *)
(*                                                                         *)
(* A call chain is rooted in the FFI entry point call_callable_point       *)
(* (libwasmvm/src/dynamic_link.rs).  A running guest extends the chain by  *)
(* GoApi::contract_call, of which the repository holds two                 *)
(* implementations: libwasmvm/src/api.rs ("link") and src/api.rs           *)
(* ("legacy").  The chain is the sequence `stack` of live instances, the   *)
(* outermost first.  Gas is a u64, modelled with GasBits bits.             *)
(***************************************************************************)
EXTENDS Integers, Sequences, FiniteSets, TLC

VARIABLES
    stack,            \* the live instances of the chain, outermost first
    last,             \* what the contract_call that just returned handed to its caller
    ffi,              \* the activation of the FFI call_callable_point and its outputs
    overflow_checks,  \* whether the build traps on integer overflow (else it wraps)
    cache,            \* the module cache behind the handle of init_cache
    api               \* the last address translation: what the host answered, the result

vars == <<stack, last, ffi, overflow_checks, cache, api>>

--------------------------------------------------------------------------
\* Bounds of the model

\* Width, in bits, of the modelled u64
GasBits == 3
\* Longest chain of live instances
MaxDepth == 2
\* Largest gas limit the host hands to a top-level call
MaxGasLimit == 2
\* The gas one run of the introspection export may burn
IntroGas == {0, 1}
\* Largest memory budget of the cache, in compiled modules
MaxCacheSize == 2

U64Max == 2^GasBits - 1

Addrs == {"a", "b"}
Names == {"f", "h"}

\* Gas values the host may report for the resolution step
HostGas == {0, 1, U64Max}
HostCost == {0, 1}

Min(x, y) == IF x < y THEN x ELSE y

\* u64 addition as the build performs it when it does not trap
AddU64(x, y) == (x + y) % (U64Max + 1)

Overflows(x, y) == x + y > U64Max

\* u64::checked_sub: -1 stands for None
NoneU64 == 0 - 1

checked_sub(x, y) == IF y > x THEN NoneU64 ELSE x - y

--------------------------------------------------------------------------
\* Regions and their marshaling

\* A mibi
MI == 1024 * 1024

\* Limits of the summed length of the regions of one call
MAX_REGIONS_LENGTH_INPUT == 64 * MI

MAX_REGIONS_LENGTH_OUTPUT == 64 * MI

\* A region of a guest's memory: the bytes it holds and their length
Region(data, len) == [data |-> data, len |-> len]

\* The argument regions a caller passes: none, two that fill the input limit
\* exactly, two that exceed it by one byte
NoArgs == << >>

TwoArgs == <<Region("x", 32 * MI), Region("y", 32 * MI)>>

ArgsOverLimit == <<Region("x", 32 * MI), Region("y", 32 * MI + 1)>>

\* The serialized environment the host resolves for a contract
ContractEnv(addr) == IF addr = "a" THEN "env_a" ELSE "env_b"

RECURSIVE SumLen(_)
SumLen(regions) ==
    IF regions = << >> THEN 0 ELSE regions[1].len + SumLen(Tail(regions))

\* cosmwasm_vm::read_region_vals_from_env: the bytes of the regions, or an error
\* when a region lies out of bounds or the lengths add up to more than the limit
read_region_vals_from_env(regions, limit_length, in_bounds) ==
    IF ~in_bounds \/ SumLen(regions) > limit_length
    THEN [ok |-> FALSE, datas |-> << >>]
    ELSE [ok |-> TRUE, datas |-> [i \in 1..Len(regions) |-> regions[i].data]]

\* cosmwasm_vm::write_value_to_env: the memory with the value in a new region,
\* and the pointer to that region
write_value_to_env(mem, data) ==
    [mem |-> Append(mem, data), ptr |-> Len(mem) + 1]

\* What a guest finds at the pointers it is handed
Deref(mem, ptrs) == [i \in 1..Len(ptrs) |-> mem[ptrs[i]]]

\* for data in input_datas { arg_region_ptrs.push(write_value_to_env(..)) }
RECURSIVE write_inputs(_, _, _)
write_inputs(mem, ptrs, datas) ==
    IF datas = << >> THEN [mem |-> mem, ptrs |-> ptrs]
    ELSE LET w == write_value_to_env(mem, datas[1])
         IN  write_inputs(w.mem, Append(ptrs, w.ptr), Tail(datas))

\* prepare_args pushing the environment after the inputs
prepare_args_env_last(contract_env, input_datas) ==
    LET i == write_inputs(<< >>, << >>, input_datas)
        e == write_value_to_env(i.mem, contract_env)
    IN  [mem |-> e.mem, ptrs |-> Append(i.ptrs, e.ptr)]

\* prepare inputs (+1 is for env): the callee's memory after the environment and
\* the inputs are written, and arg_region_ptrs
prepare_args(contract_env, input_datas) ==
    LET e == write_value_to_env(<< >>, contract_env)
    IN  write_inputs(e.mem, <<e.ptr>>, input_datas)

\* The arguments the callee's function gets
MarshaledArgs(contract_env, input_datas) ==
    LET p == prepare_args(contract_env, input_datas) IN Deref(p.mem, p.ptrs)

--------------------------------------------------------------------------
\* The guest contracts

\* What _get_callable_points_properties of the contract at an address returns:
\* callable point -> is_read_only
CalleeFuncMap(addr) == [n \in {"f"} |-> addr = "a"]

IsDeclared(addr, name) == name \in DOMAIN CalleeFuncMap(addr)

DeclaredReadOnly(addr, name) == CalleeFuncMap(addr)[name]

--------------------------------------------------------------------------
\* Instances

\* Environment::get_gas_left of an instance
GasLeft(fr) == fr.gas_limit - fr.internal - fr.external

\* The buffers get_contract_env hands to contract_call
Buffers == {"error_msg", "contract_env", "checksum"}

NoLast ==
    [kind |-> "none", via |-> "none", step |-> "none", sub |-> "none", cost |-> 0,
     used_gas |-> 0, instantiate_cost |-> 0,
     callee |-> "a", name |-> "f", created |-> FALSE, intro |-> "none",
     intro_ro |-> FALSE, invoked |-> FALSE, callee_used |-> 0,
     resolved |-> FALSE, written |-> << >>, args_len |-> 0,
     handed |-> {}, consumed |-> [b \in Buffers |-> 0], go_result |-> 0]

IdleFfi ==
    [state |-> "idle", err |-> "none", step |-> "none", is_readonly |-> FALSE,
     outputs |-> "both",
     gas_used_written |-> FALSE, gas_used |-> 0,
     events_written |-> FALSE, attributes_written |-> FALSE,
     result |-> "none", created |-> FALSE, invoked |-> FALSE, consumed |-> 0,
     returned |-> << >>]

\* What a cache entry point handed back
NoOut ==
    [op |-> "none", ptr |-> "null", arg |-> "unset", err |-> "none", data |-> "empty",
     had |-> FALSE, evicted |-> << >>, panicked |-> FALSE, dangling |-> FALSE]

\* The state of cosmwasm_vm::Cache: the memory budget, the persisted bytecode
\* files, the memory-resident compiled modules from the least to the most recently
\* used, and the pinned ones among them
NoLib == [memory_cache_size |-> 0, store |-> {}, resident |-> << >>, pinned |-> {}]

\* Before init_cache; saved and host_pinned remember what the host was told
NoCache ==
    [handle |-> "none", cache_size |-> 0, lib |-> NoLib, saved |-> {}, host_pinned |-> {},
     out |-> NoOut]

\* Before any address translation
NoApi ==
    [call |-> "none",
     in |-> [go_result |-> 0, output |-> "unset", error_msg |-> "unset", used_gas |-> 0],
     result |-> [ok |-> FALSE, value |-> "none", err |-> "none", msg |-> "none",
                 cost |-> 0]]

Init ==
    /\ stack = << >>
    /\ last = NoLast
    /\ ffi = IdleFfi
    /\ overflow_checks \in BOOLEAN
    /\ cache = NoCache
    /\ api = NoApi

--------------------------------------------------------------------------
\* The running guest

Top == stack[Len(stack)]

SetTop(fr) == [stack EXCEPT ![Len(stack)] = fr]

Running == Len(stack) > 0 /\ Top.phase = "running"

NewInstance(addr, name, via, readonly, callstack, gas_limit, burnt, intro, intro_ro) ==
    [addr |-> addr, name |-> name, via |-> via, readonly |-> readonly,
     callstack |-> callstack, gas_limit |-> gas_limit, internal |-> burnt,
     external |-> 0, phase |-> "running",
     used_gas |-> 0, instantiate_cost |-> 0, cost |-> 0,
     intro |-> intro, intro_ro |-> intro_ro,
     args |-> << >>, passed |-> << >>, passed_len |-> 0]

\* The metered guest executes one unit of work
GuestBurn ==
    /\ Running
    /\ GasLeft(Top) > 0
    /\ stack' = SetTop([Top EXCEPT !.internal = @ + 1])
    /\ UNCHANGED <<last, ffi, overflow_checks, cache, api>>

\* How a running export ends: a trap, or a number of returned regions
GuestEndings == {"trap", "ret0", "ret1", "ret2"}

NumRets(fin) == CASE fin = "ret0" -> 0 [] fin = "ret1" -> 1 [] OTHER -> 2

\* The regions the export returns
RetRegions(fin) == SubSeq(<<Region("r1", 1), Region("r2", 1)>>, 1, NumRets(fin))

--------------------------------------------------------------------------
\* The FFI entry point call_callable_point

IntroOutcomes == {"ok", "trap", "region", "json"}

\* The introspection export runs metered: it cannot burn more than the limit
IntroResult(intro, ig, gas_limit) == IF ig > gas_limit THEN "trap" ELSE intro

RootCallstacks == {<<"b">>}

FfiDefects ==
    {"cache", "name", "args", "gas_used", "checksum", "callstack", "env",
     "instance", "set_callstack"}

FfiPosts == {"ok", "write_env", "write_arg", "no_export"}

\* The events and attributes outputs are looked at only when is_readonly is false;
\* the calls that leave one of them out are made with no gas, the calls that pass
\* arguments are read-only calls of contract a
FfiBase ==
    {b \in [is_readonly : BOOLEAN, outputs : {"both", "no_events", "no_attributes"},
            callstack : RootCallstacks, gas_limit : {0, MaxGasLimit},
            addr : Addrs, name : Names, args : {<< >>, <<"x", "y">>}] :
        /\ b.outputs # "both" => ~b.is_readonly /\ b.gas_limit = 0
        /\ b.args # << >> => b.is_readonly /\ b.addr = "a" /\ b.gas_limit # 0}

\* The arguments of one call and what the library answers during it
FfiInputs(b) ==
    {[base |-> b, defect |-> d, intro |-> "ok", ig |-> 0, post |-> "ok"] :
        d \in FfiDefects}
    \cup
    {[base |-> b, defect |-> "none", intro |-> i, ig |-> g, post |-> "ok"] :
        i \in IntroOutcomes \ {"ok"}, g \in IntroGas}
    \cup
    {[base |-> b, defect |-> "none", intro |-> "ok", ig |-> g, post |-> p] :
        g \in IntroGas, p \in FfiPosts}

\* cosmwasm_vm::set_callee_permission: the permission guard of the library
set_callee_permission(is_readonly, addr, name, intro) ==
    IF intro # "ok" THEN [ok |-> FALSE, readonly |-> TRUE, sub |-> intro]
    ELSE IF ~IsDeclared(addr, name) THEN [ok |-> FALSE, readonly |-> TRUE, sub |-> "nokey"]
    ELSE IF is_readonly /\ ~DeclaredReadOnly(addr, name)
         THEN [ok |-> FALSE, readonly |-> TRUE, sub |-> "escalation"]
    ELSE [ok |-> TRUE, readonly |-> DeclaredReadOnly(addr, name), sub |-> "none"]

\* Option<Vec<u8>>
None == [some |-> FALSE, val |-> << >>]

Some(val) == [some |-> TRUE, val |-> val]

\* The bytes of a region's data
Bytes(data) == <<data>>

RECURSIVE Joined(_)
Joined(val) ==
    IF val = << >> THEN << >>
    ELSE IF Len(val) = 1 THEN val
    ELSE <<val[1], ",">> \o Joined(Tail(val))

\* serde_json::to_vec of an Option<Vec<u8>>: the text null, or the array of the
\* bytes as numbers
to_vec(option_data) ==
    IF ~option_data.some THEN <<"n", "u", "l", "l">>
    ELSE <<"[">> \o Joined(option_data.val) \o <<"]">>

\* handle_c_error_default: the value of Ok, the default value for Err
handle_c_error_default(ok, value) == IF ok THEN value ELSE None

FfiFail(a, err, step, created, invoked, consumed) ==
    [state |-> "done", err |-> err, step |-> step, is_readonly |-> a.base.is_readonly,
     outputs |-> a.base.outputs,
     gas_used_written |-> FALSE, gas_used |-> 0,
     events_written |-> FALSE, attributes_written |-> FALSE,
     result |-> "none", created |-> created, invoked |-> invoked,
     consumed |-> consumed,
     returned |-> to_vec(handle_c_error_default(FALSE, None))]

\* do_call_callable_point up to the call of the export: the activation record when
\* the call ends here, or the record of a running call
do_call_callable_point(a) ==
    LET b == a.base
        intro == IntroResult(a.intro, a.ig, b.gas_limit)
        burnt == Min(a.ig, b.gas_limit)
        perm == set_callee_permission(b.is_readonly, b.addr, b.name, intro)
    IN  IF a.defect = "cache" THEN FfiFail(a, "UnsetArg", "cache", FALSE, FALSE, 0)
        ELSE IF a.defect = "name" THEN FfiFail(a, "UnsetArg", "name", FALSE, FALSE, 0)
        ELSE IF a.defect = "args" THEN FfiFail(a, "UnsetArg", "args", FALSE, FALSE, 0)
        ELSE IF a.defect = "gas_used" THEN FfiFail(a, "EmptyArg", "gas_used", FALSE, FALSE, 0)
        ELSE IF a.defect = "checksum" THEN FfiFail(a, "UnsetArg", "checksum", FALSE, FALSE, 0)
        ELSE IF a.defect = "callstack" THEN FfiFail(a, "UnsetArg", "callstack", FALSE, FALSE, 0)
        ELSE IF a.defect = "env" THEN FfiFail(a, "UnsetArg", "env", FALSE, FALSE, 0)
        ELSE IF a.defect = "instance" THEN FfiFail(a, "VmErr", "instance", FALSE, FALSE, 0)
        ELSE IF a.defect = "set_callstack"
             THEN FfiFail(a, "VmErr", "set_callstack", TRUE, FALSE, 0)
        ELSE IF ~perm.ok THEN FfiFail(a, "VmErr", "permission", TRUE, FALSE, burnt)
        ELSE IF a.post = "write_env" THEN FfiFail(a, "VmErr", "write_env", TRUE, FALSE, burnt)
        ELSE IF a.post = "write_arg" /\ b.args # << >>
             THEN FfiFail(a, "VmErr", "write_arg", TRUE, FALSE, burnt)
        ELSE IF a.post = "no_export"
             THEN FfiFail(a, "DynamicLinkErr", "call", TRUE, FALSE, burnt)
        ELSE [FfiFail(a, "none", "call", TRUE, TRUE, burnt)
              EXCEPT !.state = "running", !.returned = << >>]

\* prepare inputs: the instance's memory after the environment and the arguments
\* are written, and arg_ptrs
ffi_prepare_args(env_u8, args) ==
    LET e == write_value_to_env(<< >>, env_u8)
    IN  write_inputs(e.mem, <<e.ptr>>, args)

\* The instance do_call_callable_point makes for the call
FfiInstance(a) ==
    LET b == a.base
        p == ffi_prepare_args(ContractEnv(b.addr), b.args)
    IN  [NewInstance(b.addr, b.name, "ffi",
                     set_callee_permission(b.is_readonly, b.addr, b.name, "ok").readonly,
                     b.callstack, b.gas_limit, Min(a.ig, b.gas_limit), "ok", TRUE)
         EXCEPT !.args = Deref(p.mem, p.ptrs), !.passed = b.args]

\* The host calls call_callable_point
call_callable_point ==
    /\ ffi.state = "idle"
    /\ stack = << >>
    /\ \E b \in FfiBase : \E a \in FfiInputs(b) :
         /\ ffi' = do_call_callable_point(a)
         /\ stack' = IF ffi'.state = "running" THEN <<FfiInstance(a)>> ELSE << >>
    /\ last' = NoLast
    /\ UNCHANGED <<overflow_checks, cache, api>>

\* do_call_callable_point writing the events and attributes outputs as soon as the
\* export has returned, before it looks at the result of the call
do_call_callable_point_return_events_first(fr, fin, read_ok) ==
    LET fail(err, step) ==
            [ffi EXCEPT !.state = "done", !.err = err, !.step = step,
                        !.consumed = fr.internal,
                        !.events_written = ffi.outputs = "both",
                        !.attributes_written = ffi.outputs = "both",
                        !.returned = to_vec(handle_c_error_default(FALSE, None))]
        call_result == IF NumRets(fin) = 0 THEN None
                       ELSE Some(Bytes(RetRegions(fin)[1].data))
    IN  IF fin = "trap" THEN fail("DynamicLinkErr", "call")
        ELSE IF ~read_ok THEN fail("VmErr", "read_rets")
        ELSE IF NumRets(fin) > 1 THEN fail("DynamicLinkErr", "rets")
        ELSE IF ~ffi.is_readonly /\ ffi.outputs = "no_events" THEN fail("EmptyArg", "events")
        ELSE IF ~ffi.is_readonly /\ ffi.outputs = "no_attributes" THEN fail("EmptyArg", "attributes")
        ELSE [ffi EXCEPT !.state = "done", !.err = "none", !.step = "done",
                         !.consumed = fr.internal,
                         !.events_written = ffi.outputs = "both",
                         !.attributes_written = ffi.outputs = "both",
                         !.gas_used_written = TRUE,
                         !.gas_used = fr.internal,
                         !.result = IF NumRets(fin) = 0 THEN "empty" ELSE "one",
                         !.returned = to_vec(handle_c_error_default(TRUE, call_result))]

\* do_call_callable_point from the return of the export to its own return
do_call_callable_point_return(fr, fin, read_ok) ==
    LET fail(err, step) ==
            [ffi EXCEPT !.state = "done", !.err = err, !.step = step,
                        !.consumed = fr.internal,
                        !.returned = to_vec(handle_c_error_default(FALSE, None))]
        result_datas == RetRegions(fin)
        call_result == IF NumRets(fin) = 0 THEN None
                       ELSE Some(Bytes(result_datas[1].data))
    IN  IF fin = "trap" THEN fail("DynamicLinkErr", "call")
        ELSE IF ~read_ok THEN fail("VmErr", "read_rets")
        ELSE IF NumRets(fin) > 1 THEN fail("DynamicLinkErr", "rets")
        ELSE IF ~ffi.is_readonly /\ ffi.outputs = "no_events" THEN fail("EmptyArg", "events")
        ELSE IF ~ffi.is_readonly /\ ffi.outputs = "no_attributes" THEN fail("EmptyArg", "attributes")
        ELSE [ffi EXCEPT !.state = "done", !.err = "none", !.step = "done",
                         !.consumed = fr.internal,
                         !.events_written = ~ffi.is_readonly,
                         !.attributes_written = ~ffi.is_readonly,
                         !.gas_used_written = TRUE,
                         !.gas_used = fr.internal,
                         !.result = IF NumRets(fin) = 0 THEN "empty" ELSE "one",
                         !.returned = to_vec(handle_c_error_default(TRUE, call_result))]

\* The export called by call_callable_point ends and the entry point returns
call_callable_point_return ==
    /\ Len(stack) = 1
    /\ Running
    /\ Top.via = "ffi"
    /\ \E fin \in GuestEndings, read_ok \in BOOLEAN :
         ffi' = do_call_callable_point_return(Top, fin, read_ok)
    /\ stack' = << >>
    /\ UNCHANGED <<last, overflow_checks, cache, api>>

--------------------------------------------------------------------------
\* What the host's get_contract_env hands back

HostGasPairs == [used_gas : HostGas, instantiate_cost : HostCost]

\* get_contract_env of src/api.rs reports no instantiate cost
LegacyGasPairs == [used_gas : HostGas, instantiate_cost : {0}]

\* The gas reported along with an answer that leaves an output unset
DefectGas == [used_gas |-> 1, instantiate_cost |-> 1]

LegacyDefectGas == [used_gas |-> 1, instantiate_cost |-> 0]

HostDefects == {"no_env", "null_cache", "no_checksum", "bad_checksum", "no_code"}

HostOut(go_result, g, defect) ==
    [go_result |-> go_result, used_gas |-> g.used_gas,
     instantiate_cost |-> g.instantiate_cost,
     env_set |-> go_result = 0 /\ defect # "no_env",
     cache_set |-> go_result = 0 /\ defect # "null_cache",
     checksum |-> IF go_result # 0 \/ defect = "no_checksum" THEN "unset"
                  ELSE IF defect = "bad_checksum" THEN "badlen" ELSE "ok",
     instance_ok |-> go_result = 0 /\ defect # "no_code"]

\* The answers with which the resolution step fails, and those with which it succeeds
HostOutputsBad ==
    {HostOut(1, g, "none") : g \in HostGasPairs}
    \cup {HostOut(0, DefectGas, d) : d \in HostDefects}

HostOutputsOk == {HostOut(0, g, "none") : g \in HostGasPairs}

\* What the library answers while contract_call prepares the callee
LinkPosts == {"ok", "callstack", "write_env", "write_arg", "no_export"}

LibOut(intro, ig, post, uninit_null) ==
    [intro |-> intro, ig |-> ig, post |-> post, uninit_null |-> uninit_null]

LinkLibs ==
    {LibOut(i, g, "ok", TRUE) : i \in IntroOutcomes \ {"ok"}, g \in IntroGas}
    \cup {LibOut("ok", g, p, TRUE) : g \in IntroGas, p \in LinkPosts}

\* One call: the callee, the callable point, and what the host and the library
\* answer during it
Call(contract_addr, name, args, read_ok, h, l) ==
    [contract_addr |-> contract_addr, name |-> name, args |-> args,
     read_ok |-> read_ok, h |-> h, l |-> l]

\* The bytes of the regions a caller passes
Datas(regions) == [i \in 1..Len(regions) |-> regions[i].data]

\* The calls that end before the callee is looked at name one callee, and so do the
\* calls that pass arguments
LinkInputs ==
    {Call("a", "f", r, b, HostOut(0, [used_gas |-> 0, instantiate_cost |-> 0], "none"),
          LibOut("ok", 0, "ok", TRUE)) :
        r \in {NoArgs, TwoArgs, ArgsOverLimit}, b \in BOOLEAN}
    \cup {Call("a", "f", NoArgs, TRUE, h, LibOut("ok", 0, "ok", TRUE)) :
            h \in HostOutputsBad}
    \cup {Call("a", "f", TwoArgs, TRUE,
                HostOut(0, [used_gas |-> 0, instantiate_cost |-> 0], "none"),
                LibOut("ok", 0, "write_arg", TRUE))}
    \cup {Call(c, n, NoArgs, TRUE, h, l) :
            c \in Addrs, n \in Names, h \in HostOutputsOk, l \in LinkLibs}

--------------------------------------------------------------------------
\* GoApi::contract_call of libwasmvm/src/api.rs

\* An outcome of contract_call before the export runs: an error handed to the
\* caller, a panic, or (kind "invoke") the callee instance about to run
Outcome(kind, step, sub, cost, created, intro, intro_ro, callee_used, frame) ==
    [kind |-> kind, step |-> step, sub |-> sub, cost |-> cost, created |-> created,
     intro |-> intro, intro_ro |-> intro_ro, invoked |-> kind = "invoke",
     callee_used |-> callee_used, frame |-> frame,
     resolved |-> step # "read_args", written |-> << >>,
     args_len |-> frame.passed_len]

NoFrame == NewInstance("a", "f", "none", TRUE, << >>, 0, 0, "none", FALSE)

\* gas_limit_of forgetting the instantiate cost
gas_limit_of_without_instantiate(gas_left, used_gas, instantiate_cost) ==
    checked_sub(gas_left, used_gas)

\* The gas limit of the callee: what the caller has left less the resolution cost
gas_limit_of(gas_left, used_gas, instantiate_cost) ==
    checked_sub(gas_left, AddU64(used_gas, instantiate_cost))

\* charge_instantiate leaving the cost as it was
charge_instantiate_dropped(cost, instantiate_cost) == cost

\* gas_info.cost += instantiate_cost
charge_instantiate(cost, instantiate_cost) == AddU64(cost, instantiate_cost)

\* introspection_readonly taking the caller's flag
introspection_readonly_inherited(is_caller_permission) == is_caller_permission

\* The flag under which the introspection export runs
introspection_readonly(is_caller_permission) == TRUE

\* get_read_write_permission without the check of the caller's permission
get_read_write_permission_unguarded(is_caller_permission, addr, name, intro) ==
    LET ro == introspection_readonly(is_caller_permission)
        err(sub) == [ok |-> FALSE, is_read_only |-> TRUE, sub |-> sub,
                     intro |-> intro, intro_ro |-> ro]
    IN  IF intro # "ok" THEN err(intro)
        ELSE IF ~IsDeclared(addr, name) THEN err("nokey")
        ELSE [ok |-> TRUE, is_read_only |-> DeclaredReadOnly(addr, name),
              sub |-> "none", intro |-> intro, intro_ro |-> ro]

\* get_read_write_permission taking an undeclared callable point for a read-only one
get_read_write_permission_default(is_caller_permission, addr, name, intro) ==
    LET ro == introspection_readonly(is_caller_permission)
        err(sub) == [ok |-> FALSE, is_read_only |-> TRUE, sub |-> sub,
                     intro |-> intro, intro_ro |-> ro]
    IN  IF intro # "ok" THEN err(intro)
        ELSE IF ~IsDeclared(addr, name)
             THEN [ok |-> TRUE, is_read_only |-> TRUE, sub |-> "none",
                   intro |-> intro, intro_ro |-> ro]
        ELSE IF is_caller_permission /\ ~DeclaredReadOnly(addr, name)
             THEN err("escalation")
        ELSE [ok |-> TRUE, is_read_only |-> DeclaredReadOnly(addr, name),
              sub |-> "none", intro |-> intro, intro_ro |-> ro]

\* get_read_write_permission: Ok(is_read_only of the callable point) or Err
get_read_write_permission(is_caller_permission, addr, name, intro) ==
    LET ro == introspection_readonly(is_caller_permission)
        err(sub) == [ok |-> FALSE, is_read_only |-> TRUE, sub |-> sub,
                     intro |-> intro, intro_ro |-> ro]
    IN  IF intro # "ok" THEN err(intro)
        ELSE IF ~IsDeclared(addr, name) THEN err("nokey")
        ELSE IF is_caller_permission /\ ~DeclaredReadOnly(addr, name)
             THEN err("escalation")
        ELSE [ok |-> TRUE, is_read_only |-> DeclaredReadOnly(addr, name),
              sub |-> "none", intro |-> intro, intro_ro |-> ro]

\* callee_storage_readonly taking the value for "may write"
callee_storage_readonly_negated(caller_readonly, is_read_write_permission) ==
    ~is_read_write_permission

\* callee_storage_readonly taking the caller's flag, as src/api.rs does
callee_storage_readonly_inherited(caller_readonly, is_read_write_permission) ==
    caller_readonly

\* callee_instance.set_storage_readonly(is_read_write_permission)
callee_storage_readonly(caller_readonly, is_read_write_permission) ==
    is_read_write_permission

\* Environment::try_pass_callstack of the library: the callee's chain when it passes
try_pass_callstack(caller, ok) ==
    [ok |-> ok,
     callstack |-> IF ok THEN Append(caller.callstack, caller.addr) ELSE << >>]

\* callstack_rejected going on after an Err
callstack_rejected_ignored(passed) == FALSE

\* match caller_env.try_pass_callstack(..) { Ok(_) => {}, Err(e) => return .. }
callstack_rejected(passed) == ~passed.ok

\* read_args_failed going on after an Err
read_args_failed_ignored(read) == FALSE

\* match read_region_vals_from_env(..) { Ok(v) => v, Err(e) => return .. }
read_args_failed(read) == ~read.ok

\* gas_info.cost += callee_instance.create_gas_report().used_internally
fold_gas(cost, used_internally) == AddU64(cost, used_internally)

contract_call(caller, contract_addr, name, in) ==
    LET h == in.h
        l == in.l
        gas_left == GasLeft(caller)
        gas_limit == gas_limit_of(gas_left, h.used_gas, h.instantiate_cost)
        cost0 == h.used_gas
        cost1 == charge_instantiate(cost0, h.instantiate_cost)
        intro == IntroResult(l.intro, l.ig, gas_limit)
        burnt == Min(l.ig, gas_limit)
        perm == get_read_write_permission(caller.readonly, contract_addr, name, intro)
        passed == try_pass_callstack(caller, l.post # "callstack")
        read == read_region_vals_from_env(in.args, MAX_REGIONS_LENGTH_INPUT, in.read_ok)
        input_datas == read.datas
        none == [NoFrame EXCEPT !.passed_len = SumLen(in.args)]
        early(kind, step, cost) ==
            Outcome(kind, step, "none", cost, FALSE, "none", FALSE, 0, none)
        late(kind, step, sub) ==
            Outcome(kind, step, sub, cost1, TRUE, perm.intro, perm.intro_ro, burnt, none)
        callee ==
            [NewInstance(contract_addr, name, "link",
                         callee_storage_readonly(caller.readonly, perm.is_read_only),
                         passed.callstack, gas_limit, burnt, perm.intro, perm.intro_ro)
             EXCEPT !.used_gas = h.used_gas, !.instantiate_cost = h.instantiate_cost,
                    !.cost = cost1,
                    !.args = MarshaledArgs(ContractEnv(contract_addr), input_datas),
                    !.passed = Datas(in.args), !.passed_len = SumLen(in.args)]
    IN  IF read_args_failed(read) THEN early("DynamicLinkErr", "read_args", 0)
        ELSE IF overflow_checks /\ Overflows(h.used_gas, h.instantiate_cost)
             THEN early("Panic", "gas", cost0)
        ELSE IF gas_limit = NoneU64 THEN early("OutOfGas", "gas", cost0)
        ELSE IF h.go_result # 0 THEN early("HostErr", "host", cost0)
        ELSE IF ~h.env_set THEN early("Unknown", "env", cost0)
        ELSE IF ~h.cache_set THEN early("Unknown", "cache", cost0)
        ELSE IF h.checksum = "unset" THEN early("Unknown", "checksum", cost0)
        ELSE IF h.checksum = "badlen" THEN early("Panic", "checksum", cost0)
        ELSE IF ~h.instance_ok THEN early("Unknown", "instance", cost0)
        ELSE IF ~perm.ok THEN late("DynamicLinkErr", "permission", perm.sub)
        ELSE IF callstack_rejected(passed) THEN late("UserErr", "callstack", "none")
        ELSE IF l.post = "write_env" THEN late("DynamicLinkErr", "write_env", "none")
        ELSE IF l.post = "write_arg" /\ input_datas # << >>
             THEN late("DynamicLinkErr", "write_arg", "none")
        ELSE IF l.post = "no_export"
             THEN Outcome("DynamicLinkErr", "call", "none", fold_gas(cost1, burnt), TRUE,
                          perm.intro, perm.intro_ro, burnt, none)
        ELSE Outcome("invoke", "call", "none", cost1, TRUE, perm.intro, perm.intro_ro,
                     burnt, callee)

\* The buffers the host has set when get_contract_env returns
Handed(h) ==
    {b \in Buffers : \/ b = "error_msg" /\ h.go_result # 0
                     \/ b = "contract_env" /\ h.env_set
                     \/ b = "checksum" /\ h.checksum # "unset"}

\* GoError::into_result(error_msg, default) takes the error message buffer
into_result(consumed) == [consumed EXCEPT !["error_msg"] = @ + 1]

\* UnmanagedVector::consume
consume(consumed, b) == [consumed EXCEPT ![b] = @ + 1]

\* How often contract_call has consumed each buffer when it returns from the step
\* named: nothing before into_result, then contract_env_out.consume(), then, past
\* to_cache, checksum_out.consume()
buffers_consumed(step) ==
    LET none == [b \in Buffers |-> 0]
        msg == into_result(none)
        env == consume(msg, "contract_env")
        sum == consume(env, "checksum")
    IN  CASE step \in {"read_args", "gas"} -> none
          [] step = "host" -> msg
          [] step \in {"env", "cache"} -> env
          [] OTHER -> sum

\* What the caller of contract_call gets back, with the circumstances of the call
Returned(out, via, contract_addr, name, h) ==
    [kind |-> out.kind, via |-> via, step |-> out.step, sub |-> out.sub,
     cost |-> out.cost, used_gas |-> h.used_gas,
     instantiate_cost |-> h.instantiate_cost,
     callee |-> contract_addr, name |-> name,
     created |-> out.created, intro |-> out.intro, intro_ro |-> out.intro_ro,
     invoked |-> out.invoked, callee_used |-> out.callee_used,
     resolved |-> out.resolved, written |-> out.written, args_len |-> out.args_len,
     handed |-> IF out.resolved THEN Handed(h) ELSE {},
     consumed |-> buffers_consumed(out.step),
     go_result |-> IF out.resolved THEN h.go_result ELSE 0]

\* A panic unwinds the whole chain up to catch_unwind in call_callable_point; a
\* use of a garbage cache pointer ends the process
Unwound(kind, step) ==
    [ffi EXCEPT !.state = IF kind = "Panic" THEN "done" ELSE "crashed",
                !.err = kind, !.step = step,
                !.consumed = stack[1].internal,
                !.returned = IF kind = "Panic"
                             THEN to_vec(handle_c_error_default(FALSE, None))
                             ELSE << >>]

\* contract_call pushing the caller's address onto the caller's own chain
Enter_in_place(out, via, contract_addr, name, h) ==
    IF out.kind \in {"Panic", "Abort"}
    THEN /\ stack' = << >>
         /\ last' = NoLast
         /\ ffi' = Unwound(out.kind, out.step)
    ELSE IF out.kind = "invoke"
    THEN /\ stack' = Append(SetTop([Top EXCEPT !.phase = "waiting",
                                               !.callstack = Append(@, Top.addr)]),
                            out.frame)
         /\ last' = NoLast
         /\ UNCHANGED ffi
    ELSE /\ stack' = SetTop([Top EXCEPT !.phase = "returned"])
         /\ last' = Returned(out, via, contract_addr, name, h)
         /\ UNCHANGED ffi

\* contract_call starting the export and letting the caller run on
Enter_async(out, via, contract_addr, name, h) ==
    IF out.kind \in {"Panic", "Abort"}
    THEN /\ stack' = << >>
         /\ last' = NoLast
         /\ ffi' = Unwound(out.kind, out.step)
    ELSE IF out.kind = "invoke"
    THEN /\ stack' = Append(stack, out.frame)
         /\ last' = NoLast
         /\ UNCHANGED ffi
    ELSE /\ stack' = SetTop([Top EXCEPT !.phase = "returned"])
         /\ last' = Returned(out, via, contract_addr, name, h)
         /\ UNCHANGED ffi

\* The effect of contract_call up to the start of the export: the caller is inside
\* contract_call while call_function_strict runs the callee
Enter(out, via, contract_addr, name, h) ==
    IF out.kind \in {"Panic", "Abort"}
    THEN /\ stack' = << >>
         /\ last' = NoLast
         /\ ffi' = Unwound(out.kind, out.step)
    ELSE IF out.kind = "invoke"
    THEN /\ stack' = Append(SetTop([Top EXCEPT !.phase = "waiting"]), out.frame)
         /\ last' = NoLast
         /\ UNCHANGED ffi
    ELSE /\ stack' = SetTop([Top EXCEPT !.phase = "returned"])
         /\ last' = Returned(out, via, contract_addr, name, h)
         /\ UNCHANGED ffi

\* The running guest calls a callable point of another contract
ContractCall ==
    /\ Running
    /\ Len(stack) < MaxDepth
    /\ \E in \in LinkInputs :
         Enter(contract_call(Top, in.contract_addr, in.name, in), "link",
               in.contract_addr, in.name, in.h)
    /\ UNCHANGED <<overflow_checks, cache, api>>

\* contract_call from the return of the export to its own return; write_fail is the
\* index of the result whose write into the caller fails, 0 for none
contract_call_return(fr, fin, read_ok, write_fail) ==
    LET out(kind, step, cost) ==
            Outcome(kind, step, "none", cost, TRUE, fr.intro, fr.intro_ro,
                    fr.internal, fr)
        read == read_region_vals_from_env(RetRegions(fin), MAX_REGIONS_LENGTH_OUTPUT,
                                          read_ok)
        done == IF write_fail > 0 THEN SubSeq(read.datas, 1, write_fail - 1)
                ELSE read.datas
        wrote == write_inputs(<< >>, << >>, done).mem
    IN  IF fin = "trap"
        THEN out("DynamicLinkErr", "call", fold_gas(fr.cost, fr.internal))
        ELSE IF ~read.ok THEN out("DynamicLinkErr", "read_rets", fr.cost)
        ELSE IF write_fail > 0
             THEN [out("DynamicLinkErr", "write_rets", fr.cost) EXCEPT !.written = wrote]
        ELSE [out("Ok", "done", fold_gas(fr.cost, fr.internal)) EXCEPT !.written = wrote]

Caller == stack[Len(stack) - 1]

\* contract_call returning an error with the callee's instance kept
Leave_leaking(out) ==
    LET fr == Top
        h == [used_gas |-> fr.used_gas, instantiate_cost |-> fr.instantiate_cost,
              go_result |-> 0, env_set |-> TRUE, checksum |-> "ok"]
        ret == [Returned(out, fr.via, fr.addr, fr.name, h)
                EXCEPT !.invoked = TRUE]
    IN  IF out.kind \in {"Panic", "Abort"}
        THEN /\ stack' = << >>
             /\ last' = NoLast
             /\ ffi' = Unwound(out.kind, out.step)
        ELSE /\ stack' = IF out.kind = "Ok"
                         THEN [SubSeq(stack, 1, Len(stack) - 1)
                               EXCEPT ![Len(stack) - 1].phase = "returned"]
                         ELSE [stack EXCEPT ![Len(stack) - 1].phase = "returned"]
             /\ last' = ret
             /\ UNCHANGED ffi

\* The effect of the return of contract_call on the chain: callee_instance is a
\* local of contract_call and goes with it
Leave(out) ==
    LET fr == Top
        h == [used_gas |-> fr.used_gas, instantiate_cost |-> fr.instantiate_cost,
              go_result |-> 0, env_set |-> TRUE, checksum |-> "ok"]
        ret == [Returned(out, fr.via, fr.addr, fr.name, h)
                EXCEPT !.invoked = TRUE]
    IN  IF out.kind \in {"Panic", "Abort"}
        THEN /\ stack' = << >>
             /\ last' = NoLast
             /\ ffi' = Unwound(out.kind, out.step)
        ELSE /\ stack' = [SubSeq(stack, 1, Len(stack) - 1)
                          EXCEPT ![Len(stack) - 1].phase = "returned"]
             /\ last' = ret
             /\ UNCHANGED ffi

\* The export called by contract_call ends and contract_call returns
ContractCallReturn ==
    /\ Len(stack) >= 2
    /\ Running
    /\ Top.via = "link"
    /\ \E fin \in GuestEndings, read_ok \in BOOLEAN :
         \E write_fail \in 0..(IF fin = "trap" \/ ~read_ok THEN 0 ELSE NumRets(fin)) :
            Leave(contract_call_return(Top, fin, read_ok, write_fail))
    /\ UNCHANGED <<overflow_checks, cache, api>>

--------------------------------------------------------------------------
\* GoApi::contract_call of src/api.rs

LegacyPosts == {"ok", "callstack", "write_env", "copy_args", "no_export"}

\* cache_ptr_out starts uninitialized here: when the host leaves it unset, what
\* is read is null or garbage
LegacyInputs ==
    {Call("a", "f", NoArgs, TRUE, HostOut(1, g, "none"), LibOut("none", 0, "ok", TRUE)) :
        g \in LegacyGasPairs}
    \cup {Call("a", "f", NoArgs, TRUE, HostOut(0, LegacyDefectGas, d),
                LibOut("none", 0, "ok", TRUE)) :
            d \in HostDefects}
    \cup {Call("a", "f", NoArgs, TRUE, HostOut(0, LegacyDefectGas, "null_cache"),
                LibOut("none", 0, "ok", FALSE))}
    \cup {Call("a", "f", TwoArgs, TRUE, HostOut(0, [used_gas |-> 0, instantiate_cost |-> 0],
                                                "none"),
                LibOut("none", 0, "ok", TRUE))}
    \cup {Call(c, n, NoArgs, TRUE, HostOut(0, g, "none"), LibOut("none", 0, p, TRUE)) :
            c \in Addrs, n \in Names, g \in LegacyGasPairs, p \in LegacyPosts}

\* cosmwasm_vm::copy_region_vals_between_env: what the destination finds at the
\* pointers returned, when the copy succeeds
copy_region_vals_between_env(regions) ==
    LET w == write_inputs(<< >>, << >>, Datas(regions)) IN Deref(w.mem, w.ptrs)

\* caller_env.get_gas_left().checked_sub(used_gas)
legacy_gas_limit_of(gas_left, used_gas) == checked_sub(gas_left, used_gas)

\* callee_instance.set_storage_readonly(caller_env.is_storage_readonly())
legacy_storage_readonly(caller_readonly) == caller_readonly

legacy_contract_call(caller, contract_addr, name, in) ==
    LET h == in.h
        l == in.l
        gas_limit == legacy_gas_limit_of(GasLeft(caller), h.used_gas)
        cost0 == h.used_gas
        passed == try_pass_callstack(caller, l.post # "callstack")
        out(kind, step, created) ==
            Outcome(kind, step, "none", cost0, created, "none", FALSE, 0, NoFrame)
        callee ==
            [NewInstance(contract_addr, name, "legacy",
                         legacy_storage_readonly(caller.readonly),
                         passed.callstack, gas_limit, 0, "none", FALSE)
             EXCEPT !.used_gas = h.used_gas, !.instantiate_cost = h.instantiate_cost,
                    !.cost = cost0,
                    !.args = <<ContractEnv(contract_addr)>>
                             \o copy_region_vals_between_env(in.args),
                    !.passed = Datas(in.args), !.passed_len = SumLen(in.args)]
    IN  IF gas_limit = NoneU64 THEN out("OutOfGas", "gas", FALSE)
        ELSE IF h.go_result # 0 THEN out("HostErr", "host", FALSE)
        ELSE IF ~h.env_set THEN out("Unknown", "env", FALSE)
        ELSE IF ~h.cache_set /\ l.uninit_null THEN out("Unknown", "cache", FALSE)
        ELSE IF ~h.cache_set THEN out("Abort", "cache", FALSE)
        ELSE IF h.checksum = "unset" THEN out("Unknown", "checksum", FALSE)
        ELSE IF h.checksum = "badlen" THEN out("Panic", "checksum", FALSE)
        ELSE IF ~h.instance_ok THEN out("Unknown", "instance", FALSE)
        ELSE IF callstack_rejected(passed) THEN out("UserErr", "callstack", TRUE)
        ELSE IF l.post = "write_env" THEN out("Panic", "write_env", TRUE)
        ELSE IF l.post = "copy_args" THEN out("Panic", "copy_args", TRUE)
        ELSE IF l.post = "no_export"
             THEN Outcome("DynamicLinkErr", "call", "none", fold_gas(cost0, 0), TRUE,
                          "none", FALSE, 0, NoFrame)
        ELSE Outcome("invoke", "call", "none", cost0, TRUE, "none", FALSE, 0, callee)

\* The running guest calls another contract through the implementation of src/api.rs
LegacyContractCall ==
    /\ Running
    /\ Len(stack) < MaxDepth
    /\ \E in \in LegacyInputs :
         Enter(legacy_contract_call(Top, in.contract_addr, in.name, in), "legacy",
               in.contract_addr, in.name, in.h)
    /\ UNCHANGED <<overflow_checks, cache, api>>

\* contract_call of src/api.rs from the return of the export to its own return
legacy_contract_call_return(fr, fin, copy_ok) ==
    LET out(kind, step, cost) ==
            Outcome(kind, step, "none", cost, TRUE, fr.intro, fr.intro_ro,
                    fr.internal, fr)
    IN  IF fin = "trap"
        THEN out("DynamicLinkErr", "call", fold_gas(fr.cost, fr.internal))
        ELSE IF ~copy_ok THEN out("Panic", "copy_rets", fr.cost)
        ELSE [out("Ok", "done", fold_gas(fr.cost, fr.internal))
              EXCEPT !.written = copy_region_vals_between_env(RetRegions(fin))]

LegacyContractCallReturn ==
    /\ Len(stack) >= 2
    /\ Running
    /\ Top.via = "legacy"
    /\ \E fin \in GuestEndings, copy_ok \in BOOLEAN :
         Leave(legacy_contract_call_return(Top, fin, copy_ok))
    /\ UNCHANGED <<overflow_checks, cache, api>>

\* The library charges the cost contract_call reported to the caller, which resumes
CallerResume ==
    /\ Len(stack) > 0
    /\ Top.phase = "returned"
    /\ stack' = SetTop([Top EXCEPT !.phase = "running",
                                   !.external = @ + Min(last.cost, GasLeft(Top))])
    /\ last' = NoLast
    /\ UNCHANGED <<ffi, overflow_checks, cache, api>>

\* The host takes the outputs of a finished call_callable_point
HostCollect ==
    /\ ffi.state = "done"
    /\ ffi' = IdleFfi
    /\ UNCHANGED <<stack, last, overflow_checks, cache, api>>


--------------------------------------------------------------------------
\* cosmwasm_vm::Cache, the library behind the entry points of src/cache.rs

Wasms == {"w1", "w2", "w3"}

\* Bytes that are no valid module
InvalidWasm == "bad"

\* The content hash of a bytecode
ChecksumOf(wasm) ==
    CASE wasm = "w1" -> "c1" [] wasm = "w2" -> "c2" [] wasm = "w3" -> "c3"
      [] OTHER -> "c0"

Checksums == {ChecksumOf(w) : w \in Wasms}

\* The checksums with a persisted bytecode file
Stored(lib) == {f.checksum : f \in lib.store}

SeqToSet(q) == {q[i] : i \in 1..Len(q)}

RECURSIVE Without(_, _)
Without(q, x) ==
    IF q = << >> THEN << >>
    ELSE IF q[1] = x THEN Without(Tail(q), x)
    ELSE <<q[1]>> \o Without(Tail(q), x)

\* The memory-resident modules that are not pinned, least recently used first
Unpinned(lib) == SelectSeq(lib.resident, LAMBDA k : k \notin lib.pinned)

LibOk(lib, val, evicted) == [lib |-> lib, err |-> "none", val |-> val, evicted |-> evicted]

LibErr(lib, err) == [lib |-> lib, err |-> err, val |-> "empty", evicted |-> << >>]

\* The bytes a compiled module takes in memory
ModuleSize(checksum) == IF checksum = "c3" THEN 2 * MI ELSE MI

RECURSIVE SumSize(_)
SumSize(q) == IF q = << >> THEN 0 ELSE ModuleSize(q[1]) + SumSize(Tail(q))

\* Eviction: while the unpinned resident modules exceed the budget, the least
\* recently used unpinned one goes
RECURSIVE evict(_, _)
evict(lib, evicted) ==
    IF SumSize(Unpinned(lib)) <= lib.memory_cache_size
    THEN [lib |-> lib, evicted |-> evicted]
    ELSE LET k == Unpinned(lib)[1]
         IN  evict([lib EXCEPT !.resident = Without(@, k)], Append(evicted, k))

\* Cache::save_wasm writing a file on every call
Cache_save_wasm_rewriting(lib, wasm) ==
    IF wasm = InvalidWasm THEN LibErr(lib, "VmErr")
    ELSE LET k == ChecksumOf(wasm)
             copies == Cardinality({f \in lib.store : f.checksum = k})
         IN  LibOk([lib EXCEPT !.store = @ \cup {[checksum |-> k, wasm |-> wasm,
                                                  copy |-> copies + 1]}],
                   k, << >>)

\* Cache::save_wasm: checks the bytes, persists them under their checksum unless a
\* file for it is there, and returns the checksum
Cache_save_wasm(lib, wasm) ==
    IF wasm = InvalidWasm THEN LibErr(lib, "VmErr")
    ELSE LET k == ChecksumOf(wasm)
         IN  IF k \in Stored(lib) THEN LibOk(lib, k, << >>)
             ELSE LibOk([lib EXCEPT !.store = @ \cup {[checksum |-> k, wasm |-> wasm,
                                                       copy |-> 1]}],
                        k, << >>)

\* Cache::load_wasm answering from the modules in memory
Cache_load_wasm_resident_only(lib, checksum) ==
    IF checksum \notin SeqToSet(lib.resident) THEN LibErr(lib, "NotFound")
    ELSE LibOk(lib, (CHOOSE f \in lib.store : f.checksum = checksum).wasm, << >>)

\* Cache::load_wasm: the persisted bytes of the checksum
Cache_load_wasm(lib, checksum) ==
    IF checksum \notin Stored(lib) THEN LibErr(lib, "NotFound")
    ELSE LibOk(lib, (CHOOSE f \in lib.store : f.checksum = checksum).wasm, << >>)

\* Cache::get_module and Cache::get_instance: the resident module, or the module
\* compiled anew from the persisted bytes; it becomes the most recently used
Cache_get_module(lib, checksum) ==
    IF checksum \in SeqToSet(lib.resident)
    THEN LibOk([lib EXCEPT !.resident = Append(Without(@, checksum), checksum)],
               checksum, << >>)
    ELSE IF checksum \notin Stored(lib) THEN LibErr(lib, "NotFound")
    ELSE LET e == evict([lib EXCEPT !.resident = Append(@, checksum)], << >>)
         IN  LibOk(e.lib, checksum, e.evicted)

\* Cache::pin going through the load also for a module that is pinned
Cache_pin_again(lib, checksum) ==
    IF checksum \notin Stored(lib) THEN LibErr(lib, "NotFound")
    ELSE LibOk([lib EXCEPT !.resident = Append(Without(@, checksum), checksum),
                           !.pinned = @ \cup {checksum}],
               "empty", << >>)

\* Cache::pin: the module becomes resident, if it is not, and exempt from eviction
Cache_pin(lib, checksum) ==
    IF checksum \in lib.pinned THEN LibOk(lib, "empty", << >>)
    ELSE IF checksum \in SeqToSet(lib.resident)
         THEN LibOk([lib EXCEPT !.pinned = @ \cup {checksum}], "empty", << >>)
    ELSE IF checksum \notin Stored(lib) THEN LibErr(lib, "NotFound")
    ELSE LibOk([lib EXCEPT !.resident = Append(@, checksum),
                           !.pinned = @ \cup {checksum}],
               "empty", << >>)

\* Cache::unpin: the module is eligible for eviction again
Cache_unpin(lib, checksum) ==
    LET e == evict([lib EXCEPT !.pinned = @ \ {checksum}], << >>)
    IN  LibOk(e.lib, "empty", e.evicted)

\* Cache::analyze: a report on the persisted bytes
Cache_analyze(lib, checksum) ==
    IF checksum \notin Stored(lib) THEN LibErr(lib, "NotFound")
    ELSE LibOk(lib, "report", << >>)

--------------------------------------------------------------------------
\* The entry points of src/cache.rs

\* to_cache: None for a null pointer
to_cache(ptr) == ptr # "null"

\* The checksum arguments a host passes: unset, of a wrong length, or well-formed
ChecksumArgs == Checksums \cup {"unset", "short"}

WasmArgs == Wasms \cup {"unset", InvalidWasm}

\* checksum.read().ok_or_else(..)?.try_into()?
read_checksum(checksum) ==
    IF checksum = "unset" THEN "UnsetArg"
    ELSE IF checksum = "short" THEN "ChecksumLen"
    ELSE "none"

do_save_wasm(lib, wasm) ==
    IF wasm = "unset" THEN LibErr(lib, "UnsetArg") ELSE Cache_save_wasm(lib, wasm)

\* do_load_wasm handing back empty bytes for an error of the cache
do_load_wasm_or_default(lib, checksum) ==
    IF read_checksum(checksum) # "none" THEN LibErr(lib, read_checksum(checksum))
    ELSE LET r == Cache_load_wasm(lib, checksum)
         IN  IF r.err # "none" THEN LibOk(lib, "empty", << >>) ELSE r

do_load_wasm(lib, checksum) ==
    IF read_checksum(checksum) # "none" THEN LibErr(lib, read_checksum(checksum))
    ELSE Cache_load_wasm(lib, checksum)

\* do_pin calling cache.unpin
do_pin_as_unpin(lib, checksum) ==
    IF read_checksum(checksum) # "none" THEN LibErr(lib, read_checksum(checksum))
    ELSE Cache_unpin(lib, checksum)

do_pin(lib, checksum) ==
    IF read_checksum(checksum) # "none" THEN LibErr(lib, read_checksum(checksum))
    ELSE Cache_pin(lib, checksum)

\* do_unpin calling cache.pin
do_unpin_as_pin(lib, checksum) ==
    IF read_checksum(checksum) # "none" THEN LibErr(lib, read_checksum(checksum))
    ELSE Cache_pin(lib, checksum)

do_unpin(lib, checksum) ==
    IF read_checksum(checksum) # "none" THEN LibErr(lib, read_checksum(checksum))
    ELSE Cache_unpin(lib, checksum)

do_analyze_code(lib, checksum) ==
    IF read_checksum(checksum) # "none" THEN LibErr(lib, read_checksum(checksum))
    ELSE Cache_analyze(lib, checksum)

\* do_call_callable_point making an instance only of a module that is in memory
do_get_instance_resident_only(lib, checksum) ==
    IF read_checksum(checksum) # "none" THEN LibErr(lib, read_checksum(checksum))
    ELSE IF checksum \notin SeqToSet(lib.resident) THEN LibErr(lib, "NotFound")
    ELSE Cache_get_module(lib, checksum)

\* cache.get_instance(&checksum, backend, options) of do_call_callable_point
do_get_instance(lib, checksum) ==
    IF read_checksum(checksum) # "none" THEN LibErr(lib, read_checksum(checksum))
    ELSE Cache_get_module(lib, checksum)

\* GoApi::get_wasmer_module from the checksum and the cache pointer of the host on:
\* an unset checksum, a checksum of a wrong length (try_into().unwrap()), a null
\* pointer, then cache.get_module
do_get_wasmer_module(lib, ptr, checksum) ==
    IF checksum = "unset" THEN LibErr(lib, "Unknown")
    ELSE IF checksum = "short" THEN LibErr(lib, "Panic")
    ELSE IF ~to_cache(ptr) THEN LibErr(lib, "Unknown")
    ELSE LET r == Cache_get_module(lib, checksum)
         IN  IF r.err # "none" THEN LibErr(lib, "Unknown") ELSE r

\* The pointers a host may pass: null, the handle while it is live, and the same
\* pointer once release_cache has freed what it points to; none once the process
\* has ended
CachePtrs ==
    IF cache.out.err = "Abort" THEN {}
    ELSE {"null"} \cup (IF cache.handle = "open" THEN {"handle"}
                        ELSE IF cache.handle = "released" THEN {"stale"}
                        ELSE {})

\* The arguments passed along with a pointer: one choice with the null pointer, one
\* well-formed choice with the stale pointer
ArgsWith(ptr, args) ==
    IF ptr = "null" THEN {"unset"}
    ELSE IF ptr = "stale" THEN {CHOOSE a \in args : a \notin {"unset", "short", InvalidWasm}}
    ELSE args

\* What a use of freed memory can do: go on with whatever is there, or end the
\* process
Outcomes(ptr) == IF ptr = "stale" THEN {"garbage", "abort"} ELSE {"defined"}

use_after_free(ub, lib) ==
    IF ub = "abort" THEN LibErr(lib, "Abort") ELSE LibOk(lib, "garbage", << >>)

\* unsafe { &mut *(ptr as *mut Cache<..>) } and the body run on it
deref(ptr, ub, lib, r) == IF ptr = "stale" THEN use_after_free(ub, lib) ELSE r

\* An entry point handing back what its body had built when it failed
Returns_partial(op, ptr, arg, r, had, panics) ==
    [op |-> op, ptr |-> ptr, arg |-> arg, err |-> r.err,
     data |-> IF r.err # "none" THEN "partial" ELSE r.val, had |-> had,
     evicted |-> r.evicted, panicked |-> panics,
     dangling |-> to_cache(ptr) /\ cache.handle = "released"]

\* match to_cache(cache) { Some(c) => .., None => Err(Error::unset_arg(CACHE_ARG)) }
\* and the error and the value handed back
Returns(op, ptr, arg, r, had, panics) ==
    [op |-> op, ptr |-> ptr, arg |-> arg, err |-> r.err, data |-> r.val, had |-> had,
     evicted |-> r.evicted, panicked |-> panics,
     dangling |-> to_cache(ptr) /\ cache.handle = "released"]

\* Whether the body of the entry point panics: there is no body to run when
\* to_cache is None
Panics(ptr) == IF ptr = "handle" THEN BOOLEAN ELSE {FALSE}

\* A panic that leaves the entry point
catch_unwind_resumed(panics, lib, r) ==
    IF panics THEN [LibErr(lib, "none") EXCEPT !.val = "unwinding"] ELSE r

\* catch_unwind(AssertUnwindSafe(..)).unwrap_or_else(|_| Err(Error::panic()))
catch_unwind(panics, lib, r) == IF panics THEN LibErr(lib, "Panic") ELSE r

Rest == <<stack, last, ffi, overflow_checks, api>>

InitArgs == {"ok", "unset_dir", "bad_dir", "unset_features"}

\* Size::mebi
Size_mebi(n) == n * MI

\* do_init_cache taking cache_size in KiB
do_init_cache_kibi(dir, cache_size) ==
    IF dir = "unset_dir" \/ dir = "unset_features" THEN LibErr(NoLib, "UnsetArg")
    ELSE IF dir = "bad_dir" THEN LibErr(NoLib, "VmErr")
    ELSE LibOk([NoLib EXCEPT !.memory_cache_size = cache_size * 1024], "handle", << >>)

do_init_cache(dir, cache_size) ==
    IF dir = "unset_dir" \/ dir = "unset_features" THEN LibErr(NoLib, "UnsetArg")
    ELSE IF dir = "bad_dir" THEN LibErr(NoLib, "VmErr")
    ELSE LibOk([NoLib EXCEPT !.memory_cache_size = Size_mebi(cache_size)], "handle", << >>)

init_cache ==
    /\ cache.handle = "none"
    /\ \E dir \in InitArgs, cache_size \in 0..MaxCacheSize, panics \in BOOLEAN :
         LET r == catch_unwind(panics, NoLib, do_init_cache(dir, cache_size))
         IN  cache' = [cache EXCEPT !.handle = IF r.err = "none" THEN "open" ELSE "none",
                                    !.cache_size = IF r.err = "none" THEN cache_size ELSE 0,
                                    !.lib = r.lib,
                                    !.out = Returns("init_cache", "null", dir, r, FALSE,
                                                    panics)]
    /\ UNCHANGED Rest

save_wasm ==
    /\ \E ptr \in CachePtrs : \E wasm \in ArgsWith(ptr, WasmArgs) :
       \E panics \in Panics(ptr), ub \in Outcomes(ptr) :
         LET r == IF to_cache(ptr)
                  THEN deref(ptr, ub, cache.lib,
                             catch_unwind(panics, cache.lib, do_save_wasm(cache.lib, wasm)))
                  ELSE LibErr(cache.lib, "UnsetArg")
         IN  cache' = [cache EXCEPT
                          !.lib = r.lib,
                          !.saved = IF r.err = "none" /\ ptr = "handle" THEN @ \cup {wasm}
                                    ELSE @,
                          !.out = Returns("save_wasm", ptr, wasm, r,
                                          ChecksumOf(wasm) \in Stored(cache.lib), panics)]
    /\ UNCHANGED Rest

load_wasm ==
    /\ \E ptr \in CachePtrs : \E checksum \in ArgsWith(ptr, ChecksumArgs) :
       \E panics \in Panics(ptr), ub \in Outcomes(ptr) :
         LET r == IF to_cache(ptr)
                  THEN deref(ptr, ub, cache.lib,
                             catch_unwind(panics, cache.lib, do_load_wasm(cache.lib, checksum)))
                  ELSE LibErr(cache.lib, "UnsetArg")
         IN  cache' = [cache EXCEPT
                          !.lib = r.lib,
                          !.out = Returns("load_wasm", ptr, checksum, r,
                                          checksum \in Stored(cache.lib), panics)]
    /\ UNCHANGED Rest

pin ==
    /\ \E ptr \in CachePtrs : \E checksum \in ArgsWith(ptr, ChecksumArgs) :
       \E panics \in Panics(ptr), ub \in Outcomes(ptr) :
         LET r == IF to_cache(ptr)
                  THEN deref(ptr, ub, cache.lib,
                             catch_unwind(panics, cache.lib, do_pin(cache.lib, checksum)))
                  ELSE LibErr(cache.lib, "UnsetArg")
         IN  cache' = [cache EXCEPT
                          !.lib = r.lib,
                          !.host_pinned = IF r.err = "none" /\ ptr = "handle"
                                          THEN @ \cup {checksum} ELSE @,
                          !.out = Returns("pin", ptr, checksum, r,
                                          checksum \in cache.host_pinned, panics)]
    /\ UNCHANGED Rest

unpin ==
    /\ \E ptr \in CachePtrs : \E checksum \in ArgsWith(ptr, ChecksumArgs) :
       \E panics \in Panics(ptr), ub \in Outcomes(ptr) :
         LET r == IF to_cache(ptr)
                  THEN deref(ptr, ub, cache.lib,
                             catch_unwind(panics, cache.lib, do_unpin(cache.lib, checksum)))
                  ELSE LibErr(cache.lib, "UnsetArg")
         IN  cache' = [cache EXCEPT
                          !.lib = r.lib,
                          !.host_pinned = IF ptr = "handle" /\ ~panics THEN @ \ {checksum} ELSE @,
                          !.out = Returns("unpin", ptr, checksum, r,
                                          checksum \in cache.host_pinned, panics)]
    /\ UNCHANGED Rest

analyze_code ==
    /\ \E ptr \in CachePtrs : \E checksum \in ArgsWith(ptr, ChecksumArgs) :
       \E panics \in Panics(ptr), ub \in Outcomes(ptr) :
         LET r == IF to_cache(ptr)
                  THEN deref(ptr, ub, cache.lib,
                             catch_unwind(panics, cache.lib, do_analyze_code(cache.lib, checksum)))
                  ELSE LibErr(cache.lib, "UnsetArg")
         IN  cache' = [cache EXCEPT
                          !.lib = r.lib,
                          !.out = Returns("analyze_code", ptr, checksum, r,
                                          checksum \in Stored(cache.lib), panics)]
    /\ UNCHANGED Rest

\* call_callable_point as far as the cache goes: the instance is made and dropped
get_instance ==
    /\ \E ptr \in CachePtrs : \E checksum \in ArgsWith(ptr, ChecksumArgs) :
       \E panics \in Panics(ptr), ub \in Outcomes(ptr) :
         LET r == IF to_cache(ptr)
                  THEN deref(ptr, ub, cache.lib,
                             catch_unwind(panics, cache.lib, do_get_instance(cache.lib, checksum)))
                  ELSE LibErr(cache.lib, "UnsetArg")
         IN  cache' = [cache EXCEPT
                          !.lib = r.lib,
                          !.out = Returns("get_instance", ptr, checksum, r,
                                          checksum \in SeqToSet(cache.lib.resident), panics)]
    /\ UNCHANGED Rest

\* get_wasmer_module as far as the cache goes
get_wasmer_module ==
    /\ \E ptr \in CachePtrs : \E checksum \in ArgsWith(ptr, ChecksumArgs) :
       \E ub \in Outcomes(ptr) :
         LET r == deref(ptr, ub, cache.lib, do_get_wasmer_module(cache.lib, ptr, checksum))
         IN  cache' = [cache EXCEPT
                          !.lib = r.lib,
                          !.out = Returns("get_module", ptr, checksum, r,
                                          checksum \in SeqToSet(cache.lib.resident), FALSE)]
    /\ UNCHANGED Rest

\* release_cache: nothing for a null pointer, else the cache is freed
release_cache ==
    /\ \E ptr \in CachePtrs : \E ub \in Outcomes(ptr) :
         LET r == deref(ptr, ub, cache.lib, LibOk(NoLib, "empty", << >>))
             out == Returns("release_cache", ptr, "unset", r, FALSE, FALSE)
         IN  cache' = IF ptr = "handle"
                      THEN [cache EXCEPT !.handle = "released",
                                         !.lib = [@ EXCEPT !.resident = << >>, !.pinned = {}],
                                         !.host_pinned = {},
                                         !.out = out]
                      ELSE [cache EXCEPT !.out = out]
    /\ UNCHANGED Rest

--------------------------------------------------------------------------
\* GoApi::canonical_address and GoApi::human_address of libwasmvm/src/api.rs

\* The result codes a host callback returns: the codes of GoError and one beyond
GoResults == 0..6

\* What the callback leaves in its output buffer: nothing, bytes that are UTF-8,
\* bytes that are not
AddressOutputs == {"unset", "utf8", "not_utf8"}

AddressInputs ==
    [go_result : GoResults, output : AddressOutputs, error_msg : {"unset", "set"},
     used_gas : HostGas]

\* impl From<i32> for GoError
GoError_from(n) ==
    CASE n = 0 -> "None"
      [] n = 1 -> "Panic"
      [] n = 2 -> "BadArgument"
      [] n = 3 -> "OutOfGas"
      [] n = 5 -> "User"
      [] OTHER -> "Other"

\* GoError::into_result(error_msg, default): Ok for None, else the BackendError of
\* the code, with the message of the buffer or the default one
GoError_into_result(go_error, error_msg) ==
    LET msg == IF error_msg = "set" THEN "host" ELSE "default"
    IN  CASE go_error = "None" -> [err |-> "none", msg |-> "none"]
          [] go_error = "Panic" -> [err |-> "ForeignPanic", msg |-> "none"]
          [] go_error = "BadArgument" -> [err |-> "BadArgument", msg |-> "none"]
          [] go_error = "OutOfGas" -> [err |-> "OutOfGas", msg |-> "none"]
          [] go_error = "User" -> [err |-> "UserErr", msg |-> msg]
          [] OTHER -> [err |-> "Unknown", msg |-> msg]

AddressErr(err, msg, used_gas) ==
    [ok |-> FALSE, value |-> "none", err |-> err, msg |-> msg, cost |-> used_gas]

AddressOk(value, used_gas) ==
    [ok |-> TRUE, value |-> value, err |-> "none", msg |-> "none", cost |-> used_gas]

canonical_address_result(in) ==
    LET e == GoError_into_result(GoError_from(in.go_result), in.error_msg)
    IN  IF e.err # "none" THEN AddressErr(e.err, e.msg, in.used_gas)
        ELSE IF in.output = "unset" THEN AddressErr("Unknown", "Unset output", in.used_gas)
        ELSE AddressOk(in.output, in.used_gas)

\* human_address handing the bytes on as they are
human_address_unchecked(in) ==
    LET e == GoError_into_result(GoError_from(in.go_result), in.error_msg)
    IN  IF e.err # "none" THEN AddressErr(e.err, e.msg, in.used_gas)
        ELSE IF in.output = "unset" THEN AddressErr("Unknown", "Unset output", in.used_gas)
        ELSE AddressOk(in.output, in.used_gas)

\* human_address: as canonical_address, and then String::from_utf8 on the output
human_address_result(in) ==
    LET e == GoError_into_result(GoError_from(in.go_result), in.error_msg)
    IN  IF e.err # "none" THEN AddressErr(e.err, e.msg, in.used_gas)
        ELSE IF in.output = "unset" THEN AddressErr("Unknown", "Unset output", in.used_gas)
        ELSE IF in.output = "not_utf8" THEN AddressErr("InvalidUtf8", "none", in.used_gas)
        ELSE AddressOk(in.output, in.used_gas)

canonical_address ==
    /\ \E in \in AddressInputs :
         api' = [call |-> "canonical_address", in |-> in,
                 result |-> canonical_address_result(in)]
    /\ UNCHANGED <<stack, last, ffi, overflow_checks, cache>>

human_address ==
    /\ \E in \in AddressInputs :
         api' = [call |-> "human_address", in |-> in,
                 result |-> human_address_result(in)]
    /\ UNCHANGED <<stack, last, ffi, overflow_checks, cache>>

--------------------------------------------------------------------------
Next ==
    \/ GuestBurn
    \/ call_callable_point
    \/ call_callable_point_return
    \/ HostCollect
    \/ ContractCall
    \/ ContractCallReturn
    \/ LegacyContractCall
    \/ LegacyContractCallReturn
    \/ CallerResume

Spec == Init /\ [][Next]_vars

\* The cache used through its entry points, no call chain running
CacheNext ==
    \/ init_cache
    \/ save_wasm
    \/ load_wasm
    \/ pin
    \/ unpin
    \/ analyze_code
    \/ get_instance
    \/ get_wasmer_module
    \/ release_cache

\* The cache does not depend on the build
CacheInit == Init /\ overflow_checks

CacheSpec == CacheInit /\ [][CacheNext]_vars

\* The address translations, called on their own
ApiNext ==
    \/ canonical_address
    \/ human_address

ApiInit == Init /\ overflow_checks

ApiSpec == ApiInit /\ [][ApiNext]_vars

--------------------------------------------------------------------------
\* Properties

\* A contract_call has just returned to the instance on top of the chain
JustReturned == last.kind # "none" /\ Len(stack) > 0 /\ Top.phase = "returned"

\* The instances called through contract_call
Callees(vias) == {i \in 2..Len(stack) : stack[i].via \in vias}

\* The cost of the resolution step as contract_call of libwasmvm/src/api.rs adds it up
ResolutionCost(r) == AddU64(r.used_gas, r.instantiate_cost)

\* C1: a storage-readonly caller calling a callable point the callee declares
\* read-write gets an error, and the callable point is never invoked: no instance
\* runs it below a read-only caller, and only the introspection export ran, read-only.
C1_ReadOnlyCallerRejected ==
    /\ \A i \in Callees({"link"}) :
          stack[i - 1].readonly =>
             /\ IsDeclared(stack[i].addr, stack[i].name)
             /\ DeclaredReadOnly(stack[i].addr, stack[i].name)
    /\ (/\ JustReturned
        /\ last.via = "link"
        /\ Top.readonly
        /\ IsDeclared(last.callee, last.name)
        /\ ~DeclaredReadOnly(last.callee, last.name))
       => /\ last.kind \notin {"Ok", "invoke"}
          /\ ~last.invoked
          /\ (last.intro # "none" => last.intro_ro)

C1_Witness ==
    /\ JustReturned
    /\ last.via = "link"
    /\ Top.readonly
    /\ last.step = "permission"
    /\ last.sub = "escalation"
    /\ last.intro = "ok"
    /\ ~last.invoked

\* C2: in a chain of nested contract_calls, below a storage-readonly instance every
\* instance is storage-readonly while its callable point runs.
C2_ReadOnlyInherited ==
    \A i \in 1..Len(stack) : \A j \in i..Len(stack) :
        stack[i].readonly => stack[j].readonly

C2_Witness ==
    /\ Len(stack) >= 2
    /\ stack[Len(stack) - 1].readonly
    /\ Top.via = "link"
    /\ Top.readonly
    /\ Top.phase = "running"

\* C3: when the permission guard admits a call, the callee's storage-readonly flag
\* is the is_read_only the callee declares for the callable point, whatever the
\* caller's flag; the guard refuses for escalation only a read-only caller of a
\* declared read-write callable point.
C3_CalleeFlagIsDeclared ==
    /\ \A i \in Callees({"link"}) :
          /\ IsDeclared(stack[i].addr, stack[i].name)
          /\ stack[i].readonly = DeclaredReadOnly(stack[i].addr, stack[i].name)
    /\ (JustReturned /\ last.via = "link" /\ last.sub = "escalation")
       => /\ Top.readonly
          /\ ~DeclaredReadOnly(last.callee, last.name)

C3_Witness ==
    /\ Len(stack) >= 2
    /\ Top.via = "link"
    /\ ~stack[Len(stack) - 1].readonly
    /\ Top.readonly
    /\ DeclaredReadOnly(Top.addr, Top.name)

\* C4: a callee called through contract_call holds the caller's call chain with the
\* caller's address appended; a chain that is not passed ends the call with a user
\* error and the callable point not invoked.
C4_CallstackExtended ==
    /\ \A i \in Callees({"link", "legacy"}) :
          stack[i].callstack = Append(stack[i - 1].callstack, stack[i - 1].addr)
    /\ (JustReturned /\ last.step = "callstack")
       => last.kind = "UserErr" /\ ~last.invoked

C4_Witness ==
    /\ Len(stack) >= 2
    /\ Top.via = "link"
    /\ Top.phase = "running"
    /\ Top.callstack = <<"b", stack[1].addr>>

\* C5: the callee's gas limit is what the caller has left less the resolution cost
\* (used_gas + instantiate_cost in libwasmvm/src/api.rs, used_gas in src/api.rs);
\* when the caller has less left, contract_call returns OutOfGas with no instance
\* made, no guest code run, and the reported cost without the instantiate cost.
C5_GasLimit ==
    /\ \A i \in Callees({"link"}) :
          stack[i].gas_limit + ResolutionCost(stack[i]) = GasLeft(stack[i - 1])
    /\ \A i \in Callees({"legacy"}) :
          stack[i].gas_limit + stack[i].used_gas = GasLeft(stack[i - 1])
    /\ (JustReturned /\ last.kind = "OutOfGas")
       => /\ ~last.created
          /\ ~last.invoked
          /\ last.intro = "none"
          /\ last.cost = last.used_gas
    /\ (JustReturned /\ last.step # "read_args")
       => (last.kind = "OutOfGas"
             <=> GasLeft(Top) < (IF last.via = "link" THEN ResolutionCost(last)
                                 ELSE last.used_gas))

C5_Witness ==
    /\ JustReturned
    /\ last.via = "link"
    /\ last.kind = "OutOfGas"
    /\ last.instantiate_cost > 0
    /\ last.used_gas <= GasLeft(Top)
    /\ last.cost = last.used_gas

\* C6: on every return of contract_call (libwasmvm/src/api.rs) after the callee
\* instance was made, the reported cost includes what the callee instance used
\* internally.
C6_GasFoldedOnEveryReturn ==
    (JustReturned /\ last.via = "link" /\ last.created)
       => last.cost = AddU64(ResolutionCost(last), last.callee_used)

\* C7: when the FFI call_callable_point fails after the instance was made, the
\* gas_used output holds no less than what the instance consumed.
C7_GasUsedSetOnFailure ==
    (ffi.state = "done" /\ ffi.created /\ ffi.err # "none")
       => ffi.gas_used >= ffi.consumed

\* C8: when the permission and callstack guard rejects a call, the reported cost is
\* the resolution cost the host reported and nothing else.
C8_GuardChargesResolutionOnly ==
    (JustReturned /\ last.via = "link" /\ last.step \in {"permission", "callstack"})
       => /\ last.kind \in {"DynamicLinkErr", "UserErr"}
          /\ last.cost = ResolutionCost(last)

C8_Witness ==
    /\ JustReturned
    /\ last.via = "link"
    /\ last.step = "permission"
    /\ last.instantiate_cost > 0
    /\ last.callee_used > 0

\* C9: the introspection export always runs with the storage-readonly flag set,
\* and a callable point runs only on an instance whose introspection call
\* completed before.
C9_IntrospectionFirstAndReadOnly ==
    /\ \A i \in Callees({"link"}) : stack[i].intro = "ok" /\ stack[i].intro_ro
    /\ (JustReturned /\ last.via = "link")
       => /\ (last.intro # "none" => last.intro_ro)
          /\ (last.invoked => last.intro = "ok")

C9_Witness ==
    /\ Len(stack) >= 2
    /\ Top.via = "link"
    /\ Top.phase = "running"
    /\ ~stack[Len(stack) - 1].readonly
    /\ Top.intro = "ok"
    /\ Top.intro_ro

\* C10: a callable point the callee's introspection map does not hold is refused
\* with an error for a read-only and for a read-write caller, and is not invoked.
C10_UndeclaredRejected ==
    /\ \A i \in Callees({"link"}) : IsDeclared(stack[i].addr, stack[i].name)
    /\ (JustReturned /\ last.via = "link" /\ ~IsDeclared(last.callee, last.name))
       => /\ last.kind \notin {"Ok", "invoke"}
          /\ ~last.invoked

C10_Witness ==
    /\ JustReturned
    /\ last.via = "link"
    /\ last.sub = "nokey"
    /\ last.intro = "ok"
    /\ ~Top.readonly

\* The failures of marshaling in contract_call, by the step that fails
MarshalSteps == {"read_args", "write_env", "write_arg", "read_rets", "write_rets"}

\* C11: a callable point called with n arguments through contract_call
\* (libwasmvm/src/api.rs) or through the FFI call_callable_point gets n+1 region
\* arguments: the callee's serialized environment first, then the caller's n byte
\* strings, unchanged and in the caller's order.
C11_EnvThenArgs ==
    \A i \in 1..Len(stack) :
        stack[i].via \in {"ffi", "link"} =>
            /\ Len(stack[i].args) = Len(stack[i].passed) + 1
            /\ stack[i].args = <<ContractEnv(stack[i].addr)>> \o stack[i].passed

C11_Witness ==
    /\ Len(stack) >= 2
    /\ stack[1].via = "ffi"
    /\ stack[1].passed = <<"x", "y">>
    /\ Top.via = "link"
    /\ Top.phase = "running"
    /\ Top.passed = <<"x", "y">>
    /\ Top.args = <<ContractEnv(Top.addr), "x", "y">>

\* C12: argument regions longer in sum than MAX_REGIONS_LENGTH_INPUT make
\* contract_call (libwasmvm/src/api.rs) return a dynamic-link error before the host
\* is asked to resolve the callee, with no instance made and nothing written.
C12_InputLimit ==
    /\ \A i \in Callees({"link"}) : stack[i].passed_len <= MAX_REGIONS_LENGTH_INPUT
    /\ (JustReturned /\ last.via = "link" /\ last.args_len > MAX_REGIONS_LENGTH_INPUT)
       => /\ last.kind = "DynamicLinkErr"
          /\ last.step = "read_args"
          /\ ~last.resolved
          /\ ~last.created
          /\ ~last.invoked
          /\ last.written = << >>

C12_Witness ==
    /\ JustReturned
    /\ last.via = "link"
    /\ last.args_len = MAX_REGIONS_LENGTH_INPUT + 1
    /\ last.kind = "DynamicLinkErr"
    /\ ~last.resolved

\* C13: when contract_call (libwasmvm/src/api.rs) returns an error, the caller's
\* memory holds none of the callee's results: the writes done before a failed
\* write leave nothing behind.
C13_NoPartialWrites ==
    (JustReturned /\ last.via = "link" /\ last.kind # "Ok") => last.written = << >>

\* C14: every failure of marshaling in contract_call, of either implementation, is
\* returned to the caller as a dynamic-link error: none panics, none is reported as
\* another kind.
C14_MarshalFailuresAreDynamicLinkErr ==
    /\ (JustReturned /\ last.step \in MarshalSteps) => last.kind = "DynamicLinkErr"
    /\ ffi.err \in {"Panic", "Abort"}
       => ffi.step \notin MarshalSteps \cup {"copy_args", "copy_rets"}

\* The checksums of the bytecodes save_wasm accepted
SavedChecksums == {ChecksumOf(b) : b \in cache.saved}

\* An entry point has returned from a call with the live handle
Returned_(op) == cache.out.op = op /\ cache.out.ptr = "handle"

\* C15: save_wasm of a bytecode returns the checksum of its bytes, the same on every
\* call, and a save of a bytecode that was saved before leaves the persisted store
\* as it was.
C15_SaveIdempotent ==
    [][(cache'.out.op = "save_wasm" /\ cache'.out.ptr = "handle" /\ cache'.out.err = "none")
          => /\ cache'.out.data = ChecksumOf(cache'.out.arg)
             /\ cache'.out.arg \in cache.saved
                => /\ cache'.lib.store = cache.lib.store
                   /\ Stored(cache'.lib) = Stored(cache.lib)]_vars

C15_Witness ==
    /\ Returned_("save_wasm")
    /\ cache.out.err = "none"
    /\ cache.out.had
    /\ cache.out.arg \in cache.saved
    /\ Cardinality(cache.lib.store) = Cardinality(cache.saved)
    /\ Cardinality(cache.saved) >= 2

\* C16: load_wasm of the checksum save_wasm returned for a bytecode returns that
\* bytecode and no error, whatever was pinned, unpinned, analyzed or evicted since.
C16_LoadReturnsSaved ==
    /\ cache.handle = "open"
       => \A b \in cache.saved :
             LET r == do_load_wasm(cache.lib, ChecksumOf(b))
             IN  r.err = "none" /\ r.val = b
    /\ (Returned_("load_wasm") /\ ~cache.out.panicked /\ cache.out.arg \in SavedChecksums)
       => /\ cache.out.err = "none"
          /\ cache.out.data \in cache.saved
          /\ ChecksumOf(cache.out.data) = cache.out.arg

C16_Witness ==
    /\ Returned_("load_wasm")
    /\ cache.out.err = "none"
    /\ cache.out.data = "w1"
    /\ "c1" \notin SeqToSet(cache.lib.resident)
    /\ cache.lib.pinned # {}
    /\ Len(cache.lib.resident) >= 2

\* C17: load_wasm of a well-formed checksum that was never saved sets a not-found
\* error, returns no bytecode and leaves the cache as it was.
C17_LoadUnknownNotFound ==
    [][(/\ cache'.out.op = "load_wasm"
        /\ cache'.out.ptr = "handle"
        /\ ~cache'.out.panicked
        /\ cache'.out.arg \in Checksums \ SavedChecksums)
          => /\ cache'.out.err = "NotFound"
             /\ cache'.out.data = "empty"
             /\ cache'.lib = cache.lib
             /\ cache'.handle = cache.handle
             /\ cache'.saved = cache.saved
             /\ cache'.host_pinned = cache.host_pinned]_vars

C17_Witness ==
    /\ Returned_("load_wasm")
    /\ cache.out.arg \in Checksums \ SavedChecksums
    /\ cache.out.err = "NotFound"
    /\ cache.out.data = "empty"
    /\ cache.saved # {}

\* C18: unpin of a well-formed checksum sets no error, be it pinned, unpinned
\* before or never saved; when it is not pinned the cache stays as it was.
C18_UnpinNeverFails ==
    [][(/\ cache'.out.op = "unpin"
        /\ cache'.out.ptr = "handle"
        /\ ~cache'.out.panicked
        /\ cache'.out.arg \in Checksums)
          => /\ cache'.out.err = "none"
             /\ cache'.out.arg \notin cache.host_pinned
                => /\ cache'.lib = cache.lib
                   /\ cache'.host_pinned = cache.host_pinned
                   /\ cache'.saved = cache.saved]_vars

C18_Witness ==
    /\ Returned_("unpin")
    /\ cache.out.err = "none"
    /\ ~cache.out.had
    /\ cache.out.arg \in Checksums \ SavedChecksums
    /\ cache.lib.pinned # {}

\* C19: pin of a saved checksum succeeds and pins it; pin of a checksum that is
\* pinned succeeds and leaves the cache as it was.
C19_PinIdempotent ==
    [][(/\ cache'.out.op = "pin"
        /\ cache'.out.ptr = "handle"
        /\ ~cache'.out.panicked
        /\ cache'.out.arg \in SavedChecksums)
          => /\ cache'.out.err = "none"
             /\ cache'.out.arg \in cache'.lib.pinned
             /\ cache'.out.arg \in cache.host_pinned
                => /\ cache'.lib = cache.lib
                   /\ cache'.host_pinned = cache.host_pinned
                   /\ cache'.saved = cache.saved]_vars

C19_Witness ==
    /\ Returned_("pin")
    /\ cache.out.err = "none"
    /\ cache.out.had
    /\ Len(cache.lib.resident) >= 2
    /\ cache.lib.resident[1] = cache.out.arg

\* C20: from a successful pin of a checksum to the next unpin of it, its compiled
\* module is memory-resident, whatever is saved, loaded, instantiated, pinned or
\* unpinned for other checksums.
C20_PinnedStaysResident ==
    cache.handle = "open"
       => \A k \in cache.host_pinned : k \in SeqToSet(cache.lib.resident)

C20_Witness ==
    /\ Returned_("get_instance")
    /\ cache.out.evicted # << >>
    /\ cache.host_pinned # {}
    /\ cache.lib.resident[1] \in cache.host_pinned
    /\ SumSize(Unpinned(cache.lib)) = cache.lib.memory_cache_size
    /\ cache.cache_size >= 1
    /\ cache.out.arg \notin SeqToSet(cache.out.evicted)

\* The unpinned modules in memory, least recently used first, once the operation
\* that returned has put its module among them and before any eviction
Candidates ==
    IF cache'.out.op = "unpin"
    THEN Unpinned([cache.lib EXCEPT !.pinned = @ \ {cache'.out.arg}])
    ELSE Append(Unpinned(cache.lib), cache'.out.arg)

\* The modules from position n + 1 on fit the budget the host configured
Fits(q, n) == SumSize(SubSeq(q, n + 1, Len(q))) <= cache.cache_size * MI

\* The least number of least recently used modules to evict
Excess(q) == CHOOSE n \in 0..Len(q) : Fits(q, n) /\ \A m \in 0..(n - 1) : ~Fits(q, m)

\* C21: when a compiled module comes to the unpinned modules in memory (a module
\* compiled for get_instance, or one that is unpinned) and they exceed the budget of
\* cache_size MiB given to init_cache, the modules evicted are the least recently
\* used unpinned ones, in recency order, and no more than the budget requires; after
\* every operation the unpinned modules in memory are within the budget.
C21_LruEvictionWithinBudget ==
    [][/\ cache'.handle = "open"
          => SumSize(Unpinned(cache'.lib)) <= cache'.cache_size * MI
       /\ (/\ cache'.out.ptr = "handle"
           /\ cache'.out.err = "none"
           /\ \/ cache'.out.op \in {"get_instance", "get_module"} /\ ~cache'.out.had
              \/ cache'.out.op = "unpin" /\ cache'.out.arg \in cache.lib.pinned)
          => /\ cache'.out.evicted = SubSeq(Candidates, 1, Excess(Candidates))
             /\ Unpinned(cache'.lib)
                  = SubSeq(Candidates, Excess(Candidates) + 1, Len(Candidates))]_vars

C21_Witness ==
    /\ Returned_("get_instance")
    /\ cache.out.err = "none"
    /\ ~cache.out.had
    /\ cache.out.evicted = <<"c2", "c1">>
    /\ cache.cache_size = 2
    /\ Unpinned(cache.lib) = <<cache.out.arg>>

EntryPoints ==
    {"init_cache", "save_wasm", "load_wasm", "pin", "unpin", "analyze_code", "get_instance"}

\* C23: a panic in the body of init_cache, save_wasm, load_wasm, pin, unpin,
\* analyze_code or call_callable_point does not leave the entry point: the call
\* returns with the panic error set and the default return value, and the handle
\* is as it was.
C23_PanicsAreCaught ==
    [][(cache'.out.op \in EntryPoints /\ cache'.out.panicked)
          => /\ cache'.out.err = "Panic"
             /\ cache'.out.data = "empty"
             /\ cache'.handle = cache.handle]_vars

C23_Witness ==
    /\ cache.out.op = "get_instance"
    /\ cache.out.panicked
    /\ cache.out.err = "Panic"
    /\ cache.out.arg \in SeqToSet(cache.lib.resident)
    /\ cache.handle = "open"

\* C25: release_cache frees the cache of the handle, release_cache with the null
\* pointer does nothing, and no entry point (get_wasmer_module and the instance
\* making of a call included) runs on a handle that was released, nor does
\* release_cache free it a second time.
C25_HandleLifecycle ==
    [][/\ (cache'.out.op = "release_cache" /\ cache'.out.ptr = "handle")
          => cache.handle = "open" /\ cache'.handle = "released"
       /\ (cache'.out.op = "release_cache" /\ cache'.out.ptr = "null")
          => /\ cache'.handle = cache.handle
             /\ cache'.lib = cache.lib
       /\ ~cache'.out.dangling]_vars

\* C26: the instance a call makes is owned by that call alone and is gone when the
\* call returns, with a result or an error: the live instances are the one of the
\* running call_callable_point and one per contract_call in progress, each above
\* the caller that waits for it, and none is left when call_callable_point has
\* returned.
C26_InstanceOwnedByCall ==
    /\ ffi.state # "running" => stack = << >>
    /\ ffi.state = "running" => Len(stack) >= 1 /\ stack[1].via = "ffi"
    /\ \A i \in 2..Len(stack) :
          /\ stack[i].via \in {"link", "legacy"}
          /\ stack[i - 1].phase = "waiting"
    /\ Len(stack) >= 1 => Top.phase \in {"running", "returned"}
    /\ last.kind # "none" => Len(stack) >= 1 /\ Top.phase = "returned"

C26_Witness ==
    /\ JustReturned
    /\ last.kind = "DynamicLinkErr"
    /\ last.invoked
    /\ last.created
    /\ Len(stack) = 1
    /\ Top.phase = "returned"

\* C27: a nested call is synchronous. From the entry of a caller into contract_call
\* to the return of contract_call the caller's guest executes nothing, at most one
\* instance of the chain is executing, and a caller leaves its wait only when its
\* callee is done, with a result or an error that contract_call reports.
C27_NestedCallSynchronous ==
    [][/\ \A i \in 1..Len(stack) :
             (stack[i].phase # "running" /\ Len(stack') >= i)
                => stack'[i].internal = stack[i].internal
       /\ Cardinality({i \in 1..Len(stack') : stack'[i].phase = "running"}) <= 1
       /\ \A i \in 1..Len(stack) :
             (stack[i].phase = "waiting" /\ Len(stack') >= i
                                        /\ stack'[i].phase # "waiting")
                => /\ stack'[i].phase = "returned"
                   /\ Len(stack') = i
                   /\ Len(stack) = i + 1
                   /\ last'.kind # "none"]_vars

C27_Witness ==
    /\ Len(stack) = 2
    /\ stack[1].phase = "waiting"
    /\ stack[1].internal >= 1
    /\ Top.phase = "running"
    /\ Top.internal >= 1
    /\ GasLeft(stack[1]) >= 1

\* C28: contract_call consumes each buffer that get_contract_env has set (error
\* message, serialized environment, checksum) exactly once on every path on which
\* it returns: out of gas, host error, missing environment, null cache, missing
\* checksum, failed instantiation, and success.
C28_BuffersConsumedOnce ==
    (JustReturned /\ last.via = "link" /\ last.resolved)
       => /\ \A b \in last.handed : last.consumed[b] = 1
          /\ \A b \in Buffers : last.consumed[b] <= 1

\* C29: when get_contract_env returns a non-zero result, contract_call returns the
\* host's error, makes no callee instance, runs no guest code, and reports as cost
\* the gas the host reported for the resolution.
C29_HostFailureReported ==
    (JustReturned /\ last.via = "link" /\ last.resolved /\ last.go_result # 0)
       => /\ last.kind = "HostErr"
          /\ ~last.created
          /\ ~last.invoked
          /\ last.cost = last.used_gas

\* What holds of both translations whatever the output is: a non-zero code gives
\* the error of the host (the foreign panic for code 1), not one of the translation
AddressErrorsAndCost ==
    /\ api.in.go_result # 0
       => /\ ~api.result.ok
          /\ api.result.err \notin {"none", "InvalidUtf8"}
          /\ api.result.msg # "Unset output"
    /\ api.in.go_result = 1 => api.result.err = "ForeignPanic"
    /\ (api.in.go_result = 0 /\ api.in.output = "unset")
       => api.result.err = "Unknown" /\ api.result.msg = "Unset output"
    /\ api.result.ok => api.result.value = api.in.output
    /\ api.result.cost = api.in.used_gas

\* C30 as stated: canonical_address and human_address return Ok with the host's
\* output exactly when the callback returns 0 and has set its output; a non-zero
\* code gives the error of the code, 0 with an unset output gives "Unset output",
\* and the cost is the gas the host wrote.
C30_AddressOkIffOutputSet ==
    api.call # "none"
       => /\ api.result.ok <=> (api.in.go_result = 0 /\ api.in.output # "unset")
          /\ AddressErrorsAndCost

\* C30: canonical_address returns Ok with the host's output exactly when the
\* callback returns 0 and has set its output; human_address exactly when, besides,
\* the output is UTF-8, and it returns an invalid-UTF-8 error for an output that is
\* not. A non-zero code gives the error of the code, 0 with an unset output gives
\* "Unset output", and in every case the cost is the gas the host wrote.
C30_AddressOkIffOutputUsable ==
    api.call # "none"
       => /\ api.result.ok
             <=> /\ api.in.go_result = 0
                 /\ api.in.output # "unset"
                 /\ api.call = "human_address" => api.in.output = "utf8"
          /\ (api.call = "human_address" /\ api.in.go_result = 0
                                         /\ api.in.output = "not_utf8")
             => api.result.err = "InvalidUtf8"
          /\ AddressErrorsAndCost

C30_Witness ==
    /\ api.call = "human_address"
    /\ api.in.go_result = 0
    /\ api.in.output = "not_utf8"
    /\ ~api.result.ok
    /\ api.result.cost = U64Max

\* The entry points that take the cache handle and hand back a value or nothing
HandleOps == {"save_wasm", "load_wasm", "pin", "unpin", "analyze_code"}

C32_CallerChainUnchanged ==
    [][/\ \A i \in 1..Min(Len(stack), Len(stack')) :
             /\ stack'[i].callstack = stack[i].callstack
             /\ stack'[i].addr = stack[i].addr
       /\ Len(stack') > Len(stack) /\ Len(stack) >= 1
          => stack'[Len(stack')].callstack = Append(Top.callstack, Top.addr)]_vars

C32_Witness ==
    /\ JustReturned
    /\ last.invoked
    /\ last.kind = "Ok"
    /\ Len(stack) = 1
    /\ Top.callstack = <<"b">>
    /\ Top.external > 0

\* C33: call_callable_point that ends without error returns no bytes when the
\* export returned no value and the bytes of the region when it returned one; an
\* export that returns more than one value makes the call fail with a
\* dynamic-link error.
C33_FfiResultBytes ==
    /\ (ffi.state = "done" /\ ffi.err = "none" /\ ffi.result = "empty")
       => ffi.returned = << >>
    /\ (ffi.state = "done" /\ ffi.err = "none" /\ ffi.result = "one")
       => ffi.returned = Bytes(RetRegions("ret1")[1].data)
    /\ (ffi.state = "done" /\ ffi.step = "rets") => ffi.err = "DynamicLinkErr"

\* C34: when get_contract_env returns a non-zero result code, contract_call of
\* libwasmvm/src/api.rs returns the host's error whatever the caller has left and
\* whatever used_gas and instantiate_cost the host wrote: never OutOfGas.
C34_HostFailureNotOutOfGas ==
    (JustReturned /\ last.via = "link" /\ last.go_result # 0)
       => last.kind # "OutOfGas" /\ last.kind = "HostErr"

\* C35: contract_call of libwasmvm/src/api.rs takes used_gas + instantiate_cost
\* as the sum of the two numbers: a call whose sum exceeds what the caller has
\* left returns OutOfGas, the limit of a callee together with the sum is what the
\* caller has left, and the addition does not panic.
C35_GasSumIsMathematical ==
    /\ (JustReturned /\ last.via = "link" /\ last.resolved
          /\ last.used_gas + last.instantiate_cost > GasLeft(Top))
       => last.kind = "OutOfGas"
    /\ \A i \in Callees({"link"}) :
          stack[i].gas_limit + stack[i].used_gas + stack[i].instantiate_cost
             <= GasLeft(stack[i - 1])
    /\ ffi.err = "Panic" => ffi.step # "gas"

\* C36: when contract_call of libwasmvm/src/api.rs reaches its final return, the
\* target function having run to its end or trapped, the reported cost is
\* used_gas + instantiate_cost + what the callee used internally, this total is
\* no more than the caller had left on entry, and the cost did not go down on the
\* way: it is no less than used_gas and no less than used_gas + instantiate_cost.
C36_FinalCostIsTheSum ==
    (JustReturned /\ last.via = "link" /\ last.invoked /\ last.step \in {"call", "done"})
       => /\ last.cost = last.used_gas + last.instantiate_cost + last.callee_used
          /\ last.used_gas + last.instantiate_cost + last.callee_used <= GasLeft(Top)
          /\ last.cost >= last.used_gas + last.instantiate_cost
          /\ last.cost >= last.used_gas

\* The steps at which do_call_callable_point looks for an argument or an output
ArgSteps == {"name", "args", "gas_used", "checksum", "callstack", "env", "events", "attributes"}

\* C37: call_callable_point that ends at the check of an argument or output
\* (name, args, gas_used, checksum, callstack, env, and events or attributes when
\* is_readonly is false) returns an argument error with no instance made and the
\* target function not run; a call that lacks the events or the attributes
\* output while is_readonly is false never runs the target function.
C37_MissingArgsRejectedFirst ==
    /\ (ffi.state = "done" /\ ffi.step \in ArgSteps)
       => /\ ffi.err \in {"UnsetArg", "EmptyArg"}
          /\ ~ffi.created
          /\ ~ffi.invoked
    /\ (~ffi.is_readonly /\ ffi.outputs # "both") => ~ffi.invoked

\* C38: call_callable_point writes the events and the attributes output, both of
\* them, when is_readonly is false and the call ends without error, the target
\* function having run; it writes neither of them when is_readonly is true or
\* when the call fails.
C38_EventsWrittenOnSuccessOnly ==
    /\ (ffi.events_written \/ ffi.attributes_written)
       => /\ ~ffi.is_readonly
          /\ ffi.state = "done"
          /\ ffi.err = "none"
          /\ ffi.invoked
          /\ ffi.events_written /\ ffi.attributes_written
    /\ (ffi.state = "done" /\ ffi.err = "none" /\ ~ffi.is_readonly)
       => ffi.events_written /\ ffi.attributes_written

C38_Witness ==
    /\ ffi.state = "done"
    /\ ffi.err = "none"
    /\ ~ffi.is_readonly
    /\ ffi.invoked
    /\ ffi.events_written
    /\ ffi.attributes_written
    /\ ffi.consumed > 0

\* C39: when get_contract_env returns 0 but leaves out the environment, the cache
\* handle or the checksum, or hands back a checksum of a wrong length,
\* contract_call returns an error value with the gas of the resolution as cost
\* and no callee instance made; it does not panic.
C39_MalformedOutputsTyped ==
    /\ (JustReturned /\ last.via = "link" /\ last.step \in {"env", "cache", "checksum"})
       => /\ last.kind = "Unknown"
          /\ last.cost = last.used_gas
          /\ ~last.created
          /\ ~last.invoked
    /\ (ffi.err = "Panic" /\ ffi.state = "done") => ffi.step # "checksum"

====
